---- MODULE Spec2Model ----
(***************************************************************************)
(* Model of the source-rewriting scripts of sirixdb/sirix:                 *)
(*   fix_bytes_imports.py, fix_test_imports.py, fix_chronicle_imports.py,  *)
(*   fix_rewind_calls.py, fix_test_adapters.py, fix_node_tests.py.         *)
(*                                                                         *)
(* Text is a sequence of atoms (strings); the atoms are a common           *)
(* refinement of every literal the scripts search for, so that Python's    *)
(* substring test, str.split, str.join, list.insert and re.sub become      *)
(* operators on sequences that are computed the way Python computes them.  *)
(*                                                                         *)
(* Spec      : one file, one script, the script's per-file function called *)
(*             up to MaxCalls times on it (file system does not fail).     *)
(* SpecBatch : the scripts' batch loops over NFiles files, where opening a *)
(*             file for reading or for writing may raise.                  *)
(***************************************************************************)
EXTENDS Integers, Sequences, FiniteSets, TLC

VARIABLES script,      \* which script is being run
          basename,    \* os.path.basename of the file (Spec)
          input,       \* content of the file before the first call (Spec)
          disk,        \* content of the file on disk (Spec)
          log,         \* one record per call of the per-file function (Spec)
          fs,          \* path -> content on disk (SpecBatch)
          idx,         \* number of files the batch loop has handled (SpecBatch)
          fixed_count, \* the loop's counter (SpecBatch)
          pc,          \* "loop" | "done" | "crashed" (SpecBatch)
          summary,     \* the summary line was printed (SpecBatch)
          visited,     \* paths handed to the per-file function (SpecBatch)
          changed,     \* paths whose content on disk was changed (SpecBatch)
          failed       \* paths on which open() raised (SpecBatch)

vars == <<script, basename, input, disk, log,
          fs, idx, fixed_count, pc, summary, visited, changed, failed>>

(***************************************************************************)
(* Bounds.                                                                 *)
(***************************************************************************)
MaxLines == 4
MaxChronicleLines == 3
MaxMethods == 2
MaxCalls == 2
NFiles == 3

NL == "\n"

(***************************************************************************)
(* Python primitives on text.                                              *)
(***************************************************************************)
Max(S) == CHOOSE x \in S : \A y \in S : y <= x
Min(S) == CHOOSE x \in S : \A y \in S : x <= y

\* s[i:].startswith(pat), i 1-based
MatchAt(pat, s, i) ==
    /\ i >= 1
    /\ i + Len(pat) - 1 <= Len(s)
    /\ \A k \in 1..Len(pat) : s[i + k - 1] = pat[k]

\* pat in s
Contains(pat, s) == \E i \in 1..Len(s) : MatchAt(pat, s, i)

\* line.startswith(prefix)
StartsWith(line, prefix) == MatchAt(prefix, line, 1)

\* re.sub(pat, repl, s) for a literal pattern: leftmost, non-overlapping
RECURSIVE ReSubFrom(_, _, _, _)
ReSubFrom(pat, repl, s, i) ==
    IF i > Len(s) THEN <<>>
    ELSE IF MatchAt(pat, s, i)
         THEN repl \o ReSubFrom(pat, repl, s, i + Len(pat))
         ELSE <<s[i]>> \o ReSubFrom(pat, repl, s, i + 1)

ReSub(pat, repl, s) == ReSubFrom(pat, repl, s, 1)

\* content.split('\n'): always at least one (possibly empty) line
RECURSIVE SplitFrom(_, _, _)
SplitFrom(s, i, cur) ==
    IF i > Len(s) THEN <<cur>>
    ELSE IF s[i] = NL
         THEN <<cur>> \o SplitFrom(s, i + 1, <<>>)
         ELSE SplitFrom(s, i + 1, Append(cur, s[i]))

Split(s) == SplitFrom(s, 1, <<>>)

\* '\n'.join(lines)
RECURSIVE Join(_)
Join(lines) ==
    IF Len(lines) = 0 THEN <<>>
    ELSE IF Len(lines) = 1 THEN lines[1]
         ELSE lines[1] \o <<NL>> \o Join(Tail(lines))

\* lines.insert(i, x), i a 0-based Python index >= 0 (an index past the end appends)
ListInsert(lines, i, x) ==
    LET k == IF i > Len(lines) THEN Len(lines) ELSE i
    IN  SubSeq(lines, 1, k) \o <<x>> \o SubSeq(lines, k + 1, Len(lines))

\* What one call of a per-file function did: the content it left on disk, its return
\* value, whether it wrote the file, and error: "none", "caught" (an exception of
\* open() handled by the function's except clause) or "raised" (it left the function).
Result(d, r, w, e) == [disk |-> d, ret |-> r, wrote |-> w, error |-> e]

\* what open() can do: "ok", or raise on open(path, 'r') or on open(path, 'w')
IOOutcomes == { "ok", "read_error", "write_error" }

\* all texts of 1..n lines over a set of lines
Texts(L, n) == { Join(ls) : ls \in UNION { [1..k -> L] : k \in 1..n } }

(***************************************************************************)
(* The import scan shared by fix_bytes_imports and fix_test_imports.       *)
(***************************************************************************)
IsImportLine(line) == StartsWith(line, <<"import ">>)
IsClassLine(line) ==
    StartsWith(line, <<"public class">>) \/ StartsWith(line, <<"final class">>)
IsPackageLine(line) == StartsWith(line, <<"package ">>)

\* for i, line in enumerate(lines): 0-based index of the last import line met
\* before the loop breaks at a class declaration, -1 if none
last_import_idx(lines) ==
    LET stops == { k \in 1..Len(lines) :
                     ~IsImportLine(lines[k]) /\ IsClassLine(lines[k]) }
        stop  == IF stops = {} THEN Len(lines) + 1 ELSE Min(stops)
        imps  == { k \in 1..(stop - 1) : IsImportLine(lines[k]) }
    IN  IF imps = {} THEN -1 ELSE Max(imps) - 1

\* the fallback loop: i + 1 for the first package line (0-based i), else -1
after_package_idx(lines) ==
    LET pk == { k \in 1..Len(lines) : IsPackageLine(lines[k]) }
    IN  IF pk = {} THEN -1 ELSE (Min(pk) - 1) + 1

import_insert_idx(lines) ==
    IF last_import_idx(lines) # -1 THEN last_import_idx(lines)
    ELSE after_package_idx(lines)

(***************************************************************************)
(* fix_bytes_imports.py                                                    *)
(***************************************************************************)
PackageLine == <<"package ", "io.sirix.node", ";">>
OtherImportLine == <<"import ", "java.util.List", ";">>
ClassLine == <<"public class", " T {">>
BytesImport == <<"import ", "io.sirix.node.", "Bytes", ";">>
BytesOutImport == <<"import ", "io.sirix.node.", "Bytes", "Out", ";">>
BytesUsageLine == <<"  var b = ", "Bytes", ".elasticHeapByteBuffer", "();">>

BytesUsageMarker == <<"Bytes", ".elasticHeapByteBuffer">>
BytesImportProbe == <<"import ", "io.sirix.node.", "Bytes">>

fix_bytes_imports(content, io) ==
    IF io = "read_error" THEN Result(content, FALSE, FALSE, "caught")
    ELSE
    LET uses_bytes == Contains(BytesUsageMarker, content)
        has_import == Contains(BytesImportProbe, content)
        lines      == Split(content)
        at         == import_insert_idx(lines)
    IN  IF ~uses_bytes \/ has_import THEN Result(content, FALSE, FALSE, "none")
        ELSE IF at = -1 THEN Result(content, FALSE, FALSE, "none")
        ELSE IF io = "write_error" THEN Result(content, FALSE, FALSE, "caught")
        ELSE Result(Join(ListInsert(lines, at + 1, BytesImport)), TRUE, TRUE, "none")

BytesLines ==
    { PackageLine, OtherImportLine, BytesImport, BytesOutImport,
      ClassLine, BytesUsageLine }

(***************************************************************************)
(* fix_test_imports.py                                                     *)
(***************************************************************************)
OutAdapterImport == <<"import ", "io.sirix.node.", "ChronicleBytesOutAdapter", ";">>
InAdapterImport == <<"import ", "io.sirix.node.", "ChronicleBytesInAdapter", ";">>
OutAdapterUsageLine ==
    <<"  n", ".", "serialize(", "new ", "ChronicleBytesOutAdapter", "(", "data", ")",
      ",", " cfg);">>
InAdapterUsageLine ==
    <<"  n", ".", "de", "serialize(", "new ", "ChronicleBytesInAdapter", "(", "data",
      ")", ",", " cfg);">>

OutAdapterMarker == <<"ChronicleBytesOutAdapter">>
InAdapterMarker == <<"ChronicleBytesInAdapter">>
OutAdapterImportProbe == <<"import ", "io.sirix.node.", "ChronicleBytesOutAdapter">>
InAdapterImportProbe == <<"import ", "io.sirix.node.", "ChronicleBytesInAdapter">>

\* for import_stmt in reversed(imports_to_add): lines.insert(at, import_stmt)
RECURSIVE insert_reversed(_, _, _)
insert_reversed(lines, at, imports_to_add) ==
    IF Len(imports_to_add) = 0 THEN lines
    ELSE insert_reversed(ListInsert(lines, at, imports_to_add[Len(imports_to_add)]),
                         at,
                         SubSeq(imports_to_add, 1, Len(imports_to_add) - 1))

\* no try/except: an error of open() leaves the function as an exception
fix_test_imports(content, io) ==
    IF io = "read_error" THEN Result(content, FALSE, FALSE, "raised")
    ELSE
    LET uses_out_adapter == Contains(OutAdapterMarker, content)
        uses_in_adapter  == Contains(InAdapterMarker, content)
        has_out_import   == Contains(OutAdapterImportProbe, content)
        has_in_import    == Contains(InAdapterImportProbe, content)
        lines            == Split(content)
        at               == import_insert_idx(lines)
        imports_to_add   ==
            (IF uses_out_adapter /\ ~has_out_import THEN <<OutAdapterImport>> ELSE <<>>)
            \o (IF uses_in_adapter /\ ~has_in_import THEN <<InAdapterImport>> ELSE <<>>)
    IN  IF ~uses_out_adapter /\ ~uses_in_adapter THEN Result(content, FALSE, FALSE, "none")
        ELSE IF Len(imports_to_add) = 0 THEN Result(content, FALSE, FALSE, "none")
        ELSE IF io = "write_error" THEN Result(content, FALSE, FALSE, "raised")
        ELSE Result(Join(insert_reversed(lines, at + 1, imports_to_add)),
                    TRUE, TRUE, "none")

TestImportLines ==
    { PackageLine, OtherImportLine, OutAdapterImport, InAdapterImport,
      ClassLine, OutAdapterUsageLine, InAdapterUsageLine }

(***************************************************************************)
(* fix_rewind_calls.py                                                     *)
(***************************************************************************)
rewind_pattern == <<"bytes.underlyingObject()", ".rewind()">>
\* the cast written without the parentheses around the cast expression
rewind_replacement_unparenthesised ==
    <<"(java.nio.ByteBuffer) ", "bytes.underlyingObject()", ".rewind()">>

rewind_replacement ==
    <<"((java.nio.ByteBuffer) ", "bytes.underlyingObject()", ")", ".rewind()">>

fix_rewind_calls(content, io) ==
    IF io = "read_error" THEN Result(content, FALSE, FALSE, "caught")
    ELSE IF ~Contains(rewind_pattern, content) THEN Result(content, FALSE, FALSE, "none")
    ELSE IF io = "write_error" THEN Result(content, FALSE, FALSE, "caught")
    ELSE Result(ReSub(rewind_pattern, rewind_replacement, content), TRUE, TRUE, "none")

RewindLines ==
    { <<"  ", "bytes.underlyingObject()", ".rewind()", ";">>,
      <<"  ", "bytes.underlyingObject()", ".flip()", ";">>,
      <<"  ", "((java.nio.ByteBuffer) ", "bytes.underlyingObject()", ")", ".rewind()",
        ";">>,
      <<"  f(", "bytes.underlyingObject()", ".rewind()", ", ",
        "bytes.underlyingObject()", ".rewind()", ");">> }

(***************************************************************************)
(* fix_test_adapters.py                                                    *)
(***************************************************************************)
serialize_pattern == <<".", "serialize(", "data", ",">>
serialize_replacement ==
    <<".", "serialize(", "new ", "ChronicleBytesOutAdapter", "(", "data", ")", ",">>
deserialize_pattern == <<".", "de", "serialize(", "data", ",">>
deserialize_replacement ==
    <<".", "de", "serialize(", "new ", "ChronicleBytesInAdapter", "(", "data", ")", ",">>

adapters_rewrite(content) ==
    ReSub(deserialize_pattern, deserialize_replacement,
          ReSub(serialize_pattern, serialize_replacement, content))

\* fix_test_adapters.fix_test_file: the write and "return True" are unconditional
adapters_fix_test_file(content, io) ==
    IF io = "read_error" THEN Result(content, FALSE, FALSE, "caught")
    ELSE IF io = "write_error" THEN Result(content, FALSE, FALSE, "caught")
    ELSE Result(adapters_rewrite(content), TRUE, TRUE, "none")

AdapterLines ==
    { <<"  n", ".", "serialize(", "data", ",", " cfg);">>,
      <<"  n", ".", "de", "serialize(", "data", ",", " cfg);">>,
      <<"  n", ".", "serialize(", "sink", ",", " cfg);">>,
      OutAdapterUsageLine, InAdapterUsageLine }

(***************************************************************************)
(* fix_chronicle_imports.py                                                *)
(***************************************************************************)
ChronicleBytesImport == <<"import ", "net.openhft.chronicle.bytes.", "Bytes", ";">>
ChronicleBytesInImport ==
    <<"import ", "net.openhft.chronicle.bytes.", "Bytes", "In", ";">>
ChronicleBytesOutImport ==
    <<"import ", "net.openhft.chronicle.bytes.", "Bytes", "Out", ";">>
BytesInImport == <<"import ", "io.sirix.node.", "Bytes", "In", ";">>
ByteBufferImport == <<"import ", "java.nio.", "ByteBuffer", ";">>

BytesOfByteBuffer == <<"Bytes", "<", "ByteBuffer", ">">>
BytesOfByteArray == <<"Bytes", "<", "byte[]", ">">>
BytesOutWildcard == <<"Bytes", "Out", "<", "?", ">">>

\* atoms made of [a-zA-Z0-9_] only (they start with a letter); every other atom
\* neither starts nor ends with such a character
WordAtoms == { "Bytes", "Out", "In", "ByteBuffer", "final", "x", "y" }
\* atoms made of whitespace only
SpaceAtoms == { " ", NL }

\* the number of consecutive atoms of class C in s from position i on
RECURSIVE Run(_, _, _)
Run(C, s, i) ==
    IF i <= Len(s) /\ s[i] \in C THEN 1 + Run(C, s, i + 1) ELSE 0

\* the number of consecutive atoms other than ")" from position i on: [^)]+
RECURSIVE RunNotClose(_, _)
RunNotClose(s, i) ==
    IF i <= Len(s) /\ s[i] # ")" THEN 1 + RunNotClose(s, i + 1) ELSE 0

\* re.sub(head + r'([^)]+)\)', head_repl + r'\1)', s)
RECURSIVE sub_signature(_, _, _, _)
sub_signature(head, head_repl, s, i) ==
    IF i > Len(s) THEN <<>>
    ELSE
    LET j == i + Len(head)
        n == RunNotClose(s, j)
    IN  IF MatchAt(head, s, i) /\ n >= 1 /\ j + n <= Len(s) /\ s[j + n] = ")"
        THEN head_repl \o SubSeq(s, j, j + n - 1) \o <<")">>
             \o sub_signature(head, head_repl, s, j + n + 1)
        ELSE <<s[i]>> \o sub_signature(head, head_repl, s, i + 1)

\* re.sub(r'\bBytes\s+([a-zA-Z_][a-zA-Z0-9_]*)\s*=', r'BytesOut<?> \1 =', s)
RECURSIVE sub_plain_bytes(_, _)
sub_plain_bytes(s, i) ==
    IF i > Len(s) THEN <<>>
    ELSE
    LET w1 == Run(SpaceAtoms, s, i + 1)
        a  == i + 1 + w1
        id == Run(WordAtoms, s, a)
        b  == a + id
        w2 == Run(SpaceAtoms, s, b)
        e  == b + w2
    IN  IF /\ s[i] = "Bytes"
           /\ (i = 1 \/ s[i - 1] \notin WordAtoms)
           /\ w1 >= 1
           /\ id >= 1
           /\ e <= Len(s)
           /\ s[e] = "="
        THEN BytesOutWildcard \o <<" ">> \o SubSeq(s, a, b - 1) \o <<" ", "=">>
             \o sub_plain_bytes(s, e + 1)
        ELSE <<s[i]>> \o sub_plain_bytes(s, i + 1)

\* re.sub(r'import java\.nio\.ByteBuffer;\n?', '', s)
RECURSIVE sub_bytebuffer_import(_, _)
sub_bytebuffer_import(s, i) ==
    IF i > Len(s) THEN <<>>
    ELSE IF MatchAt(ByteBufferImport, s, i)
         THEN LET j == i + Len(ByteBufferImport)
              IN  sub_bytebuffer_import(s, IF j <= Len(s) /\ s[j] = NL THEN j + 1 ELSE j)
         ELSE <<s[i]>> \o sub_bytebuffer_import(s, i + 1)

\* lines 16-18
chronicle_imports(c) ==
    ReSub(ChronicleBytesOutImport, BytesOutImport,
      ReSub(ChronicleBytesInImport, BytesInImport,
        ReSub(ChronicleBytesImport, BytesOutImport, c)))

\* lines 21-22
chronicle_signatures(c) ==
    sub_signature(<<"computeHash(", "final", " ">> \o BytesOfByteBuffer \o <<" ">>,
                  <<"computeHash(", "final", " ">> \o BytesOutWildcard \o <<" ">>,
      sub_signature(<<"computeHash(">> \o BytesOfByteBuffer \o <<" ">>,
                    <<"computeHash(">> \o BytesOutWildcard \o <<" ">>, c, 1), 1)

\* lines 25-29
chronicle_usages(c) ==
    sub_plain_bytes(
      ReSub(BytesOfByteArray, BytesOutWildcard,
        ReSub(BytesOfByteBuffer, BytesOutWildcard, c)), 1)

\* lines 32-36
chronicle_unused_import(original_content, c) ==
    IF Contains(BytesOfByteBuffer, original_content) /\ ~Contains(BytesOfByteBuffer, c)
    THEN LET remaining_content_without_generics == ReSub(BytesOutWildcard, <<>>, c)
         IN  IF ~Contains(<<"ByteBuffer">>, remaining_content_without_generics)
             THEN sub_bytebuffer_import(c, 1)
             ELSE c
    ELSE c

chronicle_rewrite(original_content) ==
    chronicle_unused_import(original_content,
      chronicle_usages(chronicle_signatures(chronicle_imports(original_content))))

fix_chronicle_imports(content, io) ==
    IF io = "read_error" THEN Result(content, FALSE, FALSE, "caught")
    ELSE IF chronicle_rewrite(content) = content THEN Result(content, FALSE, FALSE, "none")
    ELSE IF io = "write_error" THEN Result(content, FALSE, FALSE, "caught")
    ELSE Result(chronicle_rewrite(content), TRUE, TRUE, "none")

ChronicleLines ==
    { ChronicleBytesImport, ChronicleBytesOutImport, ChronicleBytesInImport,
      ByteBufferImport, BytesOutImport,
      <<"computeHash(">> \o BytesOfByteBuffer \o <<" ", "x", ")">>,
      <<"computeHash(", "final", " ">> \o BytesOfByteBuffer \o <<" ", "x", ")">>,
      BytesOfByteArray \o <<" ", "x", ";">>,
      <<"Bytes", " ", "x", "=", "y", ";">>,
      <<"ByteBuffer", " ", "y", ";">> }

(***************************************************************************)
(* fix_node_tests.py                                                       *)
(***************************************************************************)
TestJava == <<"Test", ".java">>

\* the module-level list test_files
test_files ==
    << <<"Boolean", "Node">> \o TestJava,
       <<"Number", "Node">> \o TestJava,
       <<"Object", "Number", "Node">> \o TestJava,
       <<"Object", "Node">> \o TestJava,
       <<"Array", "Node">> \o TestJava,
       <<"String", "Node">> \o TestJava,
       <<"Object", "String", "Node">> \o TestJava,
       <<"Object", "Boolean", "Node">> \o TestJava,
       <<"Null", "Node">> \o TestJava,
       <<"Object", "Null", "Node">> \o TestJava >>

Branch(has, hasnot, c, k) ==
    [has |-> has, hasnot |-> hasnot, node_class |-> c, node_kind |-> k]

\* the if/elif chain, in order; hasnot = <<>>: the branch has no "not in" test
node_branches ==
    << Branch(<<"Boolean", "Node", "Test">>, <<>>,
              <<"Boolean", "Node">>, "BOOLEAN_VALUE"),
       Branch(<<"Number", "Node", "Test">>, <<"Object", "Number">>,
              <<"Number", "Node">>, "NUMBER_VALUE"),
       Branch(<<"Object", "Number", "Node", "Test">>, <<>>,
              <<"Object", "Number", "Node">>, "OBJECT_NUMBER_VALUE"),
       Branch(<<"Object", "Node", "Test">>, <<>>,
              <<"Object", "Node">>, "OBJECT"),
       Branch(<<"Array", "Node", "Test">>, <<>>,
              <<"Array", "Node">>, "ARRAY"),
       Branch(<<"String", "Node", "Test">>, <<"Object", "String">>,
              <<"String", "Node">>, "STRING_VALUE"),
       Branch(<<"Object", "String", "Node", "Test">>, <<>>,
              <<"Object", "String", "Node">>, "OBJECT_STRING_VALUE"),
       Branch(<<"Object", "Boolean", "Node", "Test">>, <<>>,
              <<"Object", "Boolean", "Node">>, "OBJECT_BOOLEAN_VALUE"),
       Branch(<<"Null", "Node", "Test">>, <<"Object", "Null">>,
              <<"Null", "Node">>, "NULL_VALUE"),
       Branch(<<"Object", "Null", "Node", "Test">>, <<>>,
              <<"Object", "Null", "Node">>, "OBJECT_NULL_VALUE"),
       Branch(<<"Object", "Key", "Node", "Test">>, <<>>,
              <<"Object", "Key", "Node">>, "OBJECT_KEY") >>

branch_taken(b, name) ==
    /\ Contains(node_branches[b].has, name)
    /\ (node_branches[b].hasnot = <<>> \/ ~Contains(node_branches[b].hasnot, name))

\* the index of the first branch whose condition holds, 0 for the final else
select_branch(name) ==
    LET hit == { b \in 1..Len(node_branches) : branch_taken(b, name) }
    IN  IF hit = {} THEN 0 ELSE Min(hit)

NoSelection == [branch |-> 0, node_class |-> <<>>, node_kind |-> "none"]

select_node(name) ==
    IF select_branch(name) = 0 THEN NoSelection
    ELSE [branch |-> select_branch(name),
          node_class |-> node_branches[select_branch(name)].node_class,
          node_kind |-> node_branches[select_branch(name)].node_kind]

\* every ");" of the text is an atom of its own: the pattern's '\);' finds them all
Close == ");"
SegmentStmt == <<"var segment = (MemorySegment) data.asBytesIn().getUnderlying(", Close>>
VarBytesStmt == <<"var bytes = Bytes.elasticHeapByteBuffer(", Close>>
SetHashStmt == <<"node.setHash(node.computeHash(bytes)", Close>>
CheckStmt == <<"check(node", Close>>

\* 'final <node_class> node = new <node_class>(segment, \d+L,'
NewNodeHead(c) == <<"final ">> \o c \o <<" node = new ">> \o c \o <<"(segment, 13L,">>

node_replacement(c, k) ==
    <<"// Deserialize to create node", NL, "    final ">> \o c \o <<" node = (">> \o c
    \o <<") NodeKind.", k>> \o
    <<".deserialize(data.asBytesIn(),", NL,
      "                                                                               13L,",
      NL,
      "                                                                               null,",
      NL,
      "                                                                               pageTrx.getResourceSession()",
      NL,
      "                                                                                      .getResourceConfig()",
      ");", NL, "    ">>
    \o CheckStmt

\* the least position >= i where pat stands, 0 if none
FirstMatch(pat, s, i) ==
    LET at == { k \in i..Len(s) : MatchAt(pat, s, k) } IN IF at = {} THEN 0 ELSE Min(at)

\* The pattern with its lazy .*? gaps (re.DOTALL), tried at position i: the position
\* after the closing 'check(node);' of the match, 0 if no match starts at i.
node_match_end(c, s, i) ==
    IF ~MatchAt(SegmentStmt, s, i) THEN 0
    ELSE LET n == FirstMatch(NewNodeHead(c), s, i + Len(SegmentStmt))
             p == IF n = 0 THEN 0 ELSE FirstMatch(<<Close>>, s, n + Len(NewNodeHead(c)))
             v == IF p = 0 THEN 0 ELSE FirstMatch(VarBytesStmt, s, p + 1)
             h == IF v = 0 THEN 0 ELSE FirstMatch(SetHashStmt, s, v + Len(VarBytesStmt))
             k == IF h = 0 THEN 0 ELSE FirstMatch(CheckStmt, s, h + Len(SetHashStmt))
         IN  IF k = 0 THEN 0 ELSE k + Len(CheckStmt)

\* re.sub(pattern, replacement, content, flags=re.DOTALL)
RECURSIVE node_sub(_, _, _, _)
node_sub(c, k, s, i) ==
    IF i > Len(s) THEN <<>>
    ELSE IF node_match_end(c, s, i) # 0
         THEN node_replacement(c, k) \o node_sub(c, k, s, node_match_end(c, s, i))
         ELSE <<s[i]>> \o node_sub(c, k, s, i + 1)

\* fix_node_tests.fix_test_file: no try/except
node_fix_test_file(name, content, io) ==
    IF io = "read_error" THEN Result(content, FALSE, FALSE, "raised")
    ELSE
    LET sel == select_node(name)
        content_new == node_sub(sel.node_class, sel.node_kind, content, 1)
    IN  IF sel.branch = 0 THEN Result(content, FALSE, FALSE, "none")
        ELSE IF content_new = content THEN Result(content, FALSE, FALSE, "none")
        ELSE IF io = "write_error" THEN Result(content, FALSE, FALSE, "raised")
        ELSE Result(content_new, TRUE, TRUE, "none")

\* the class a test file is about: its name without 'Test.java'
ClassOfFile(name) == SubSeq(name, 1, Len(name) - Len(TestJava))

\* a test method of the file: the manual segment creation, whole or with one
\* statement missing, or the deserialize() form
NodeStatements(c) ==
    << SegmentStmt, NewNodeHead(c) \o <<" ...">>, <<Close>>, VarBytesStmt, SetHashStmt,
       CheckStmt >>

\* the statements of a method, one per line, statement number skip left out
RECURSIVE NodeMethod(_, _, _)
NodeMethod(c, skip, i) ==
    IF i > Len(NodeStatements(c)) THEN <<>>
    ELSE (IF i = skip THEN <<>> ELSE NodeStatements(c)[i] \o <<NL>>)
         \o NodeMethod(c, skip, i + 1)

NodeMethods(c) ==
    { node_replacement(c, "OBJECT") \o <<NL>> }
    \cup { NodeMethod(c, skip, 1) : skip \in 0..Len(NodeStatements(c)) }

RECURSIVE Flatten(_)
Flatten(ss) == IF Len(ss) = 0 THEN <<>> ELSE ss[1] \o Flatten(Tail(ss))

NodeTexts(c, n) ==
    { Flatten(ms) : ms \in UNION { [1..k -> NodeMethods(c)] : k \in 1..n } }

(***************************************************************************)
(* Spec: a script's per-file function called on one file.                  *)
(***************************************************************************)
Scripts ==
    { "fix_bytes_imports", "fix_test_imports", "fix_rewind_calls",
      "fix_test_adapters", "fix_chronicle_imports",
      "fix_node_tests" }

NoName == <<>>

Inputs(s, name) ==
    CASE s = "fix_bytes_imports" -> Texts(BytesLines, MaxLines)
      [] s = "fix_test_imports"  -> Texts(TestImportLines, MaxLines)
      [] s = "fix_rewind_calls"  -> Texts(RewindLines, MaxLines)
      [] s = "fix_test_adapters" -> Texts(AdapterLines, MaxLines)
      [] s = "fix_chronicle_imports" -> Texts(ChronicleLines, MaxChronicleLines)
      [] s = "fix_node_tests" -> NodeTexts(ClassOfFile(name), MaxMethods)

Names(s) ==
    IF s = "fix_node_tests" THEN { test_files[f] : f \in 1..Len(test_files) }
    ELSE { NoName }

Call(r) ==
    /\ Len(log) < MaxCalls
    /\ disk' = r.disk
    /\ log' = Append(log, [read |-> disk, after |-> r.disk, ret |-> r.ret,
                           wrote |-> r.wrote,
                           node |-> IF script = "fix_node_tests"
                                    THEN select_node(basename) ELSE NoSelection])
    /\ UNCHANGED <<script, basename, input,
                   fs, idx, fixed_count, pc, summary, visited, changed, failed>>

CallFixBytesImports ==
    /\ script = "fix_bytes_imports"
    /\ Call(fix_bytes_imports(disk, "ok"))

CallFixTestImports ==
    /\ script = "fix_test_imports"
    /\ Call(fix_test_imports(disk, "ok"))

CallFixRewindCalls ==
    /\ script = "fix_rewind_calls"
    /\ Call(fix_rewind_calls(disk, "ok"))

CallFixTestAdapters ==
    /\ script = "fix_test_adapters"
    /\ Call(adapters_fix_test_file(disk, "ok"))

CallFixChronicleImports ==
    /\ script = "fix_chronicle_imports"
    /\ Call(fix_chronicle_imports(disk, "ok"))

CallFixNodeTests ==
    /\ script = "fix_node_tests"
    /\ Call(node_fix_test_file(basename, disk, "ok"))

Init ==
    /\ script \in Scripts
    /\ basename \in Names(script)
    /\ input \in Inputs(script, basename)
    /\ disk = input
    /\ log = <<>>
    /\ fs = <<>>
    /\ idx = 0
    /\ fixed_count = 0
    /\ pc = "idle"
    /\ summary = FALSE
    /\ visited = {}
    /\ changed = {}
    /\ failed = {}

Next ==
    \/ CallFixBytesImports
    \/ CallFixTestImports
    \/ CallFixRewindCalls
    \/ CallFixTestAdapters
    \/ CallFixChronicleImports
    \/ CallFixNodeTests

Spec == Init /\ [][Next]_vars

(***************************************************************************)
(* SpecBatch: the batch loops (main() of five scripts, the module-level    *)
(* loop of fix_node_tests.py) over NFiles files; open() may raise.         *)
(***************************************************************************)
\* fs[f] of a path that does not exist (os.path.exists is False)
Absent == <<"<no such file>">>

\* the contents a file of the batch may start with
BatchFiles(s, f) ==
    CASE s = "fix_bytes_imports" ->
           { Join(<<OtherImportLine, BytesUsageLine>>),
             Join(<<BytesImport, BytesUsageLine>>), Join(<<ClassLine>>) }
      [] s = "fix_test_imports" ->
           { Join(<<OtherImportLine, OutAdapterUsageLine>>),
             Join(<<OutAdapterImport, OutAdapterUsageLine>>), Join(<<ClassLine>>) }
      [] s = "fix_rewind_calls" -> Texts(RewindLines, 1)
      [] s = "fix_test_adapters" -> Texts(AdapterLines, 1)
      [] s = "fix_chronicle_imports" ->
           { Join(<<ChronicleBytesImport>>), Join(<<BytesOutImport>>),
             Join(<<ByteBufferImport, BytesOfByteBuffer \o <<" ", "x", ";">> >>) }
      [] s = "fix_node_tests" ->
           { Absent, NodeMethod(ClassOfFile(test_files[f]), 0, 1),
             NodeMethod(ClassOfFile(test_files[f]), 3, 1) }

AllBatchFiles == UNION { BatchFiles(s, f) : s \in Scripts, f \in 1..NFiles }

InitBatch ==
    /\ script \in Scripts
    /\ fs \in { g \in [1..NFiles -> AllBatchFiles] :
                  \A f \in 1..NFiles : g[f] \in BatchFiles(script, f) }
    /\ idx = 0
    /\ fixed_count = 0
    /\ pc = "loop"
    /\ summary = FALSE
    /\ visited = {}
    /\ changed = {}
    /\ failed = {}
    /\ basename = NoName
    /\ input = <<>>
    /\ disk = <<>>
    /\ log = <<>>

\* One iteration of the loop on file idx + 1, r what the per-file function did;
\* counts: the loop adds the function's return value to fixed_count.
Iterate(r, counts) ==
    /\ pc = "loop"
    /\ idx < NFiles
    /\ fs' = [fs EXCEPT ![idx + 1] = r.disk]
    /\ visited' = visited \cup {idx + 1}
    /\ changed' = IF r.disk # fs[idx + 1] THEN changed \cup {idx + 1} ELSE changed
    /\ failed' = IF r.error # "none" THEN failed \cup {idx + 1} ELSE failed
    /\ IF r.error = "raised"
       THEN pc' = "crashed" /\ idx' = idx /\ fixed_count' = fixed_count
       ELSE /\ pc' = "loop"
            /\ idx' = idx + 1
            /\ fixed_count' = IF counts /\ r.ret THEN fixed_count + 1 ELSE fixed_count
    /\ UNCHANGED <<script, basename, input, disk, log, summary>>

MainFixBytesImports ==
    /\ script = "fix_bytes_imports" /\ pc = "loop" /\ idx < NFiles
    /\ \E io \in IOOutcomes : Iterate(fix_bytes_imports(fs[idx + 1], io), TRUE)

MainFixTestImports ==
    /\ script = "fix_test_imports" /\ pc = "loop" /\ idx < NFiles
    /\ \E io \in IOOutcomes : Iterate(fix_test_imports(fs[idx + 1], io), TRUE)

MainFixRewindCalls ==
    /\ script = "fix_rewind_calls" /\ pc = "loop" /\ idx < NFiles
    /\ \E io \in IOOutcomes : Iterate(fix_rewind_calls(fs[idx + 1], io), TRUE)

MainFixTestAdapters ==
    /\ script = "fix_test_adapters" /\ pc = "loop" /\ idx < NFiles
    /\ \E io \in IOOutcomes : Iterate(adapters_fix_test_file(fs[idx + 1], io), TRUE)

MainFixChronicleImports ==
    /\ script = "fix_chronicle_imports" /\ pc = "loop" /\ idx < NFiles
    /\ \E io \in IOOutcomes : Iterate(fix_chronicle_imports(fs[idx + 1], io), TRUE)

\* for test_file in test_files: if os.path.exists(filepath): fix_test_file(filepath)
LoopFixNodeTests ==
    /\ script = "fix_node_tests" /\ pc = "loop" /\ idx < NFiles
    /\ IF fs[idx + 1] = Absent
       THEN Iterate(Result(Absent, FALSE, FALSE, "none"), FALSE)
       ELSE \E io \in IOOutcomes :
              Iterate(node_fix_test_file(test_files[idx + 1], fs[idx + 1], io), FALSE)

\* the print after the loop
PrintSummary ==
    /\ pc = "loop"
    /\ idx = NFiles
    /\ pc' = "done"
    /\ summary' = TRUE
    /\ UNCHANGED <<script, basename, input, disk, log,
                   fs, idx, fixed_count, visited, changed, failed>>

NextBatch ==
    \/ MainFixBytesImports
    \/ MainFixTestImports
    \/ MainFixRewindCalls
    \/ MainFixTestAdapters
    \/ MainFixChronicleImports
    \/ LoopFixNodeTests
    \/ PrintSummary

SpecBatch == InitBatch /\ [][NextBatch]_vars

(***************************************************************************)
(* Properties.  log[k] is the k-th call of the script's per-file function: *)
(* read is the content it read, after the content it left on disk.         *)
(***************************************************************************)
Calls == 1..Len(log)

RewritingScripts ==
    { "fix_bytes_imports", "fix_test_imports", "fix_chronicle_imports",
      "fix_rewind_calls", "fix_test_adapters" }

InsertingScripts == { "fix_bytes_imports", "fix_test_imports" }

\* 1-based numbers of the lines starting with 'import ' above the first class declaration
ImportsBeforeClass(lines) ==
    { k \in 1..Len(lines) :
        IsImportLine(lines[k]) /\ \A j \in 1..(k - 1) : ~IsClassLine(lines[j]) }

\* 1-based numbers of the lines starting with 'package '
PackageLines(lines) == { k \in 1..Len(lines) : IsPackageLine(lines[k]) }

\* stmt if its usage marker occurs in text and the statement itself does not
MissingImport(marker, stmt, text) ==
    IF Contains(marker, text) /\ ~Contains(stmt, text) THEN <<stmt>> ELSE <<>>

\* the import statements script s owes to text, in the script's fixed order
MissingImports(s, text) ==
    IF s = "fix_bytes_imports"
    THEN MissingImport(BytesUsageMarker, BytesImport, text)
    ELSE MissingImport(OutAdapterMarker, OutAdapterImport, text)
         \o MissingImport(InAdapterMarker, InAdapterImport, text)

\* lines with the lines adds put right after line k
InsertAfter(lines, k, adds) ==
    SubSeq(lines, 1, k) \o adds \o SubSeq(lines, k + 1, Len(lines))

\* some import line occurs twice in text
DuplicateImport(text) ==
    \E i, j \in 1..Len(Split(text)) :
        i < j /\ IsImportLine(Split(text)[i]) /\ Split(text)[i] = Split(text)[j]

\* C1: for each of the five rewriting scripts, applying the transformation to its own
\* output yields that output again: a call on a file a previous call of the same
\* script has processed leaves the content as that previous call left it.
C1_Idempotent ==
    script \in RewritingScripts =>
        \A k \in Calls : k >= 2 => log[k].after = log[k - 1].after

\* C1 witness: a first pass that rewrote the file (imports, a signature and a plain
\* declaration at once) followed by a second pass.
C1_Witness ==
    /\ script = "fix_chronicle_imports"
    /\ Len(log) = 2
    /\ log[1].after # log[1].read
    /\ Contains(ChronicleBytesImport, input)
    /\ Contains(BytesOfByteBuffer, input)
    /\ log[2].after = log[1].after

\* C2: a call writes the file and returns True only if the content it leaves differs
\* from the content it read.
C2_WriteOnlyOnChange ==
    script \in RewritingScripts =>
        \A k \in Calls :
            (log[k].wrote \/ log[k].ret) => log[k].after # log[k].read

\* C3: if no import line occurs twice in the input, no import line occurs twice after
\* any number of calls of fix_chronicle_imports, fix_bytes_imports or fix_test_imports.
C3_NoDuplicateImports ==
    (script \in InsertingScripts \cup {"fix_chronicle_imports"}
     /\ ~DuplicateImport(input))
        => \A k \in Calls : ~DuplicateImport(log[k].after)

\* C5: usage marker present, import absent, no import line above the class
\* declaration, a package line present: the import(s) are put right after the first
\* package line (line index p + 1), nothing else changes.
C5_InsertAfterPackage ==
    script \in InsertingScripts =>
        \A k \in Calls :
            LET lines == Split(log[k].read)
                adds  == MissingImports(script, log[k].read)
            IN  (/\ adds # <<>>
                 /\ ImportsBeforeClass(lines) = {}
                 /\ PackageLines(lines) # {})
                => log[k].after = Join(InsertAfter(lines, Min(PackageLines(lines)), adds))

\* C6: neither an import line above the class declaration nor a package line: nothing
\* is inserted, the file is not written, the function returns False.
C6_NoAnchorNoInsertion ==
    script \in InsertingScripts =>
        \A k \in Calls :
            LET lines == Split(log[k].read)
            IN  (ImportsBeforeClass(lines) = {} /\ PackageLines(lines) = {})
                => (log[k].after = log[k].read /\ ~log[k].wrote /\ ~log[k].ret)

\* C7: the import counts as present only if the exact statement occurs: with the usage
\* marker present, an anchor line present and the exact statement absent, the
\* statement is in the content after the call.
C7_ExactImportCheck ==
    script \in InsertingScripts =>
        \A k \in Calls :
            LET lines == Split(log[k].read)
                adds  == MissingImports(script, log[k].read)
            IN  (ImportsBeforeClass(lines) # {} \/ PackageLines(lines) # {})
                => \A a \in 1..Len(adds) : Contains(adds[a], log[k].after)

\* ByteBuffer occurs in text outside the line 'import java.nio.ByteBuffer;'
ByteBufferUsedElsewhere(text) ==
    Contains(<<"ByteBuffer">>, ReSub(ByteBufferImport, <<>>, text))

\* C8: when the content read has 'Bytes<ByteBuffer>' and the ByteBuffer import, the
\* import line is in the output exactly if ByteBuffer is still used elsewhere in it.
C8_UnusedByteBufferImportRemoved ==
    script = "fix_chronicle_imports" =>
        \A k \in Calls :
            (Contains(BytesOfByteBuffer, log[k].read)
             /\ Contains(ByteBufferImport, log[k].read))
            => (Contains(ByteBufferImport, log[k].after)
                <=> ByteBufferUsedElsewhere(log[k].after))

\* C9: N >= 1 import lines above the class declaration, usage marker present, import
\* absent: the import(s) are put right after the last of those import lines, in the
\* order ChronicleBytesOutAdapter, ChronicleBytesInAdapter; every original line is kept
\* in place.
C9_InsertAfterLastImport ==
    script \in InsertingScripts =>
        \A k \in Calls :
            LET lines == Split(log[k].read)
                adds  == MissingImports(script, log[k].read)
            IN  (adds # <<>> /\ ImportsBeforeClass(lines) # {})
                => log[k].after =
                     Join(InsertAfter(lines, Max(ImportsBeforeClass(lines)), adds))

\* the imports MissingImports names, with "absent" decided the way fix_bytes_imports
\* decides it (the probe 'import io.sirix.node.Bytes' without the semicolon)
ProbedMissingImports(s, text) ==
    IF s = "fix_bytes_imports"
    THEN IF Contains(BytesUsageMarker, text) /\ ~Contains(BytesImportProbe, text)
         THEN <<BytesImport>> ELSE <<>>
    ELSE MissingImports(s, text)

\* The position C9 states, for the calls in which the script's own presence test finds
\* the import absent: this holds, so C9 fails only where that test is wrong (C7).
InsertedAfterLastImport ==
    script \in InsertingScripts =>
        \A k \in Calls :
            LET lines == Split(log[k].read)
                adds  == ProbedMissingImports(script, log[k].read)
            IN  (adds # <<>> /\ ImportsBeforeClass(lines) # {})
                => log[k].after =
                     Join(InsertAfter(lines, Max(ImportsBeforeClass(lines)), adds))

\* the kind the if/elif chain pairs with node class c
KindPairedWith(c) ==
    node_branches[CHOOSE b \in 1..Len(node_branches) :
                    node_branches[b].node_class = c].node_kind

\* the branch of the if/elif chain that names node class c
BranchOfClass(c) == CHOOSE b \in 1..Len(node_branches) : node_branches[b].node_class = c

\* C10: for every name of test_files the branch taken is the one that names the
\* file's class: the selected node_class is the name without 'Test.java' and
\* node_kind the kind paired with that class in the chain.
C10_NodeTypeByFileName ==
    script = "fix_node_tests" =>
        \A k \in Calls :
            /\ log[k].node.branch = BranchOfClass(ClassOfFile(basename))
            /\ log[k].node.node_class = ClassOfFile(basename)
            /\ log[k].node.node_kind = KindPairedWith(ClassOfFile(basename))

\* C4: an exception of open() on one file does not end the batch: the loop never
\* dies, and once it is over every file was handed to the per-file function, the
\* summary line was printed and the count is the number of files changed on disk.
C4_PartialFailureIsolation ==
    /\ pc # "crashed"
    /\ pc = "done" =>
         /\ visited = 1..NFiles
         /\ summary
         /\ script # "fix_node_tests" => fixed_count = Cardinality(changed)

====
